---- MODULE Spec2Model ----
(***************************************************************************)
(* The review collector: the two fetchers normalise feed entries into      *)
(* review records, StorageManager.save_reviews merges them into the        *)
(* per-(country, year-month) partition documents and update_index keeps    *)
(* index.json, the version -> country -> year-month map.                   *)
(*                                                                         *)
(* Time is counted in half days: day 0 is 2024-05-31, day 1 is 2024-06-01, *)
(* every later day is in June 2024 too; tod 0 is 00:00:00, tod 1 is        *)
(* 12:00:00.  A date value is a record [kind, day, sep, tod, off]:         *)
(*   kind "datetime"  a datetime.datetime; off "" is a naive one           *)
(*   kind "str"       a string "YYYY-MM-DD" sep "HH:MM:SS" off             *)
(*   kind "None"      Python's None                                        *)
(* The payload fields of a record that no operation reads (user_name,      *)
(* rating, title, content) are left out.                                   *)
(*                                                                         *)
(* Spec runs save_reviews as one step per run.  IoSpec runs one            *)
(* save_reviews call by call on the backend (_read_json, _write_json, the  *)
(* local file written flush by flush) next to the consumer's load_json;    *)
(* io is its state, and stays idle under Spec.                             *)
(***************************************************************************)
EXTENDS Integers, Sequences, FiniteSets, TLC

VARIABLES files, index, clock, hist, pre, io

vars == <<files, index, clock, hist, pre, io>>

MaxRuns == 2
MaxBatch == 2

Ids == {"a", "b"}
None == "<None>"
IndexPath == <<"index.json", 0>>

------------------------------------------------------------------------------
(* Dates: datetime, str, and the conversions between them.                 *)

DateTime(day, tod, off) ==
  [kind |-> "datetime", day |-> day, sep |-> " ", tod |-> tod, off |-> off]

IsoStr(day, sep, tod, off) ==
  [kind |-> "str", day |-> day, sep |-> sep, tod |-> tod, off |-> off]

NoneDate == [kind |-> "None", day |-> 0, sep |-> " ", tod |-> 0, off |-> ""]

\* A string datetime.fromisoformat rejects.
Garbage == IsoStr(0, "?", 0, "")

\* dt.utcoffset() in half days; a naive datetime counts as UTC.
utcoffset(dt) == IF dt.off = "-12:00" THEN -1 ELSE 0

\* The UTC instant of a datetime, in half days since 2024-05-31T00:00Z.
Instant(dt) == 2 * dt.day + dt.tod - utcoffset(dt)

\* datetime.fromisoformat raises ValueError unless this holds.
IsIsoFormat(s) == s.sep \in {"T", " "}

fromisoformat(s) == DateTime(s.day, s.tod, s.off)

\* dt.astimezone(datetime.timezone.utc)
astimezone(dt) == DateTime(Instant(dt) \div 2, Instant(dt) % 2, "+00:00")

\* dt.replace(tzinfo=datetime.timezone.utc)
replace_tzinfo(dt) == DateTime(dt.day, dt.tod, "+00:00")

\* datetime.datetime.now(datetime.timezone.utc) at clock c
now_utc(c) == DateTime(c \div 2, c % 2, "+00:00")

\* str(dt), what json.dump(default=str) writes for a datetime
str(dt) == IsoStr(dt.day, " ", dt.tod, dt.off)

\* dt.strftime('%Y/%m'), as the number YYYYMM
strftime(dt) == IF dt.day = 0 THEN 202405 ELSE 202406

\* The year-month of a stored or delivered date, taken at UTC.
UtcYearMonth(d) == strftime(astimezone(fromisoformat(d)))

\* Character order of the separator and of the offset suffix:
\* ' ' < 'T', and "" < "+00:00" < "-12:00".
SepRank(sep) == IF sep = " " THEN 0 ELSE 1

OffRank(off) == CASE off = "" -> 0 [] off = "+00:00" -> 1 [] OTHER -> 2

\* a < b on two str values
StrLess(a, b) ==
  \/ a.day < b.day
  \/ a.day = b.day /\ SepRank(a.sep) < SepRank(b.sep)
  \/ a.day = b.day /\ a.sep = b.sep /\ a.tod < b.tod
  \/ a.day = b.day /\ a.sep = b.sep /\ a.tod = b.tod /\ OffRank(a.off) < OffRank(b.off)

\* a < b raises TypeError unless this holds.
Comparable(a, b) ==
  /\ a.kind = b.kind
  /\ a.kind \in {"datetime", "str"}
  /\ a.kind = "datetime" => ((a.off = "") <=> (b.off = ""))

\* a < b on two comparable date values
DateLess(a, b) ==
  IF a.kind = "datetime" THEN Instant(a) < Instant(b) ELSE StrLess(a, b)

------------------------------------------------------------------------------
(* Sequences.                                                              *)

Range(s) == {s[i] : i \in 1..Len(s)}

Front(s) == SubSeq(s, 1, Len(s) - 1)

Last(s) == s[Len(s)]

IdsOf(s) == {s[i].id : i \in 1..Len(s)}

\* The place x takes when the list is sorted ascending and then reversed:
\* before every element that is not greater.
insert_desc_before_ties(sorted, x) ==
  LET n == Cardinality({i \in 1..Len(sorted) : DateLess(x.date, sorted[i].date)})
  IN SubSeq(sorted, 1, n) \o <<x>> \o SubSeq(sorted, n + 1, Len(sorted))

\* The place x takes in a sequence sorted by date, descending: after every
\* element that is not smaller (the sort is stable).
insert_desc(sorted, x) ==
  LET n == Cardinality({i \in 1..Len(sorted) : ~DateLess(sorted[i].date, x.date)})
  IN SubSeq(sorted, 1, n) \o <<x>> \o SubSeq(sorted, n + 1, Len(sorted))

\* merged.sort(key=lambda x: x['date'], reverse=True), on comparable dates
RECURSIVE sort_reverse(_)
sort_reverse(s) ==
  IF s = <<>> THEN <<>> ELSE insert_desc(sort_reverse(Front(s)), Last(s))

\* The sort raises TypeError: two of the keys cannot be compared.
sort_raises(s) ==
  \E i, j \in 1..Len(s) : ~Comparable(s[i].date, s[j].date)

\* list.sort() of year-month numbers, ascending
insert_asc(sorted, x) ==
  LET n == Cardinality({i \in 1..Len(sorted) : sorted[i] <= x})
  IN SubSeq(sorted, 1, n) \o <<x>> \o SubSeq(sorted, n + 1, Len(sorted))

\* A list left in the order of its appends.
sort_nothing(s) == s

RECURSIVE sort(_)
sort(s) == IF s = <<>> THEN <<>> ELSE insert_asc(sort(Front(s)), Last(s))

------------------------------------------------------------------------------
(* The fetchers: one feed entry to one review record.  A feed entry is     *)
(* [source, id, date, version, country]; date is the text of <updated>     *)
(* for an iOS entry and the value of 'at' for an Android one.              *)

\* A date a record cannot be filed under: None, or a string that is no
\* ISO date.
MissingOrUnparsable(d) ==
  d.kind = "None" \/ (d.kind = "str" /\ ~IsIsoFormat(d))

\* The date normalisation both fetchers apply to a datetime.
ensure_utc(dt) == IF dt.off = "" THEN replace_tzinfo(dt) ELSE astimezone(dt)

fetch_ios_reviews_xml(entry, c) ==
  [source |-> "ios", id |-> entry.id,
   date |-> IF IsIsoFormat(entry.date)
            THEN ensure_utc(fromisoformat(entry.date))
            ELSE now_utc(c),
   version |-> entry.version, country |-> entry.country]

fetch_android_reviews(entry) ==
  [source |-> "android", id |-> entry.id,
   date |-> IF entry.date.kind = "None" THEN NoneDate ELSE ensure_utc(entry.date),
   version |-> IF entry.version = None THEN "Unknown" ELSE entry.version,
   country |-> entry.country]

\* all_reviews of main(): the fetched records of every entry, in order.
all_reviews(entries, c) ==
  [i \in 1..Len(entries) |->
     IF entries[i].source = "ios"
     THEN fetch_ios_reviews_xml(entries[i], c)
     ELSE fetch_android_reviews(entries[i])]

------------------------------------------------------------------------------
(* StorageManager.                                                         *)

\* An empty dict, and a store with no document.
EmptyMap == [x \in {} |-> 0]

\* No index.json.
IndexAbsent == [present |-> FALSE, updated_at |-> 0, versions |-> EmptyMap]

\* A reader that finds no document: every write starts from nothing.
read_json_nothing(fs, path) == <<>>

\* self._read_json(path) or []
read_json(fs, path) == IF path \in DOMAIN fs THEN fs[path] ELSE <<>>

\* json.dump(data, default=str): a datetime is written as str(datetime).
json_dump(data) ==
  [i \in 1..Len(data) |->
     IF data[i].date.kind = "datetime"
     THEN [data[i] EXCEPT !.date = str(data[i].date)]
     ELSE data[i]]

\* A write that leaves the written document alone in the store.
write_json_alone(fs, path, data) == [p \in {path} |-> json_dump(data)]

write_json(fs, path, data) ==
  [p \in DOMAIN fs \cup {path} |-> IF p = path THEN json_dump(data) ELSE fs[p]]

\* The first record the grouping loop fails on, as the exception it raises:
\* None has no strftime, and fromisoformat rejects the string.
RECURSIVE group_raises(_)
group_raises(reviews) ==
  IF reviews = <<>> THEN ""
  ELSE LET d == Head(reviews).date
       IN IF d.kind = "None" THEN "AttributeError"
          ELSE IF d.kind = "str" /\ ~IsIsoFormat(d) THEN "ValueError"
          ELSE group_raises(Tail(reviews))

\* key = (country, ym) of a record whose date the grouping loop accepts
group_key(r) ==
  <<r.country,
    strftime(IF r.date.kind = "str" THEN fromisoformat(r.date) ELSE r.date)>>

\* The keys of grouped, in insertion order.
RECURSIVE grouped_keys(_)
grouped_keys(reviews) ==
  IF reviews = <<>> THEN <<>>
  ELSE LET ks == grouped_keys(Front(reviews))
           k == group_key(Last(reviews))
       IN IF k \in Range(ks) THEN ks ELSE Append(ks, k)

\* grouped[key]
new_reviews(reviews, key) == SelectSeq(reviews, LAMBDA r : group_key(r) = key)

\* The merge loop without existing_ids.add(nr['id']).
RECURSIVE merge_loop_no_add(_, _, _)
merge_loop_no_add(existing_ids, merged, new) ==
  IF new = <<>> THEN merged
  ELSE IF Head(new).id \notin existing_ids
       THEN merge_loop_no_add(existing_ids, Append(merged, Head(new)), Tail(new))
       ELSE merge_loop_no_add(existing_ids, merged, Tail(new))

\* The merge loop: a new record is appended unless its id is in existing_ids.
RECURSIVE merge_loop(_, _, _)
merge_loop(existing_ids, merged, new) ==
  IF new = <<>> THEN merged
  ELSE LET nr == Head(new)
       IN IF nr.id \notin existing_ids
          THEN merge_loop(existing_ids \cup {nr.id}, Append(merged, nr), Tail(new))
          ELSE merge_loop(existing_ids, merged, Tail(new))

\* A merge that does not look at the ids already stored.
merge_ignoring_stored(existing_reviews, new) ==
  merge_loop({}, existing_reviews, new)

\* A merge in which the fetched record replaces the stored one of its id.
merge_last_wins(existing_reviews, new) ==
  merge_loop(IdsOf(existing_reviews),
             [i \in 1..Len(existing_reviews) |->
                IF \E j \in 1..Len(new) : new[j].id = existing_reviews[i].id
                THEN new[CHOOSE j \in 1..Len(new) : new[j].id = existing_reviews[i].id]
                ELSE existing_reviews[i]],
             new)

merge(existing_reviews, new) ==
  merge_loop(IdsOf(existing_reviews), existing_reviews, new)

\* The version fields as stored, a missing or empty one not renamed.
versions_in_file_raw(reviews) == {reviews[i].version : i \in 1..Len(reviews)}

\* versions_in_file: a missing, None or empty version counts as "Unknown".
versions_in_file(reviews) ==
  {IF reviews[i].version \in {None, ""} THEN "Unknown" ELSE reviews[i].version :
     i \in 1..Len(reviews)}

\* An update that lists the file under every version the index knows.
add_file_every_version(versions, info) ==
  LET V == versions_in_file(info.reviews) \cup DOMAIN versions
  IN [v \in V |->
        LET by_country == IF v \in DOMAIN versions THEN versions[v] ELSE EmptyMap
            yms == IF info.country \in DOMAIN by_country
                   THEN by_country[info.country] ELSE <<>>
            added == IF info.ym \in Range(yms) THEN yms
                     ELSE sort(Append(yms, info.ym))
        IN [c \in DOMAIN by_country \cup {info.country} |->
              IF c = info.country THEN added ELSE by_country[c]]]

\* The update of index_data["versions"] for one updated file.
add_file(versions, info) ==
  LET V == versions_in_file(info.reviews)
  IN [v \in DOMAIN versions \cup V |->
        IF v \notin V THEN versions[v]
        ELSE LET by_country == IF v \in DOMAIN versions THEN versions[v] ELSE EmptyMap
                 yms == IF info.country \in DOMAIN by_country
                        THEN by_country[info.country] ELSE <<>>
                 added == IF info.ym \in Range(yms) THEN yms
                          ELSE sort(Append(yms, info.ym))
             IN [c \in DOMAIN by_country \cup {info.country} |->
                   IF c = info.country THEN added ELSE by_country[c]]]

RECURSIVE add_files(_, _)
add_files(versions, updated_files_info) ==
  IF updated_files_info = <<>> THEN versions
  ELSE add_files(add_file(versions, Head(updated_files_info)),
                 Tail(updated_files_info))

\* An update that rebuilds the index from the updated files alone.
update_index_rebuild(idx, updated_files_info, c) ==
  [present |-> TRUE, updated_at |-> c,
   versions |-> add_files(EmptyMap, updated_files_info)]

\* update_index: the index document it writes at time c.
update_index(idx, updated_files_info, c) ==
  [present |-> TRUE, updated_at |-> c,
   versions |-> add_files(IF idx.present THEN idx.versions ELSE EmptyMap,
                          updated_files_info)]

\* Step 2 of save_reviews, group by group: st is [files, affected_files,
\* raised, writes]; it stops at the group whose sort raises.
RECURSIVE save_groups(_, _, _)
save_groups(st, keys, reviews) ==
  IF keys = <<>> THEN st
  ELSE LET key == Head(keys)
           merged == merge(read_json(st.files, key), new_reviews(reviews, key))
       IN IF sort_raises(merged) THEN [st EXCEPT !.raised = "TypeError"]
          ELSE LET sorted == sort_reverse(merged)
               IN save_groups(
                    [files |-> write_json(st.files, key, sorted),
                     affected_files |-> Append(st.affected_files,
                        [country |-> key[1], ym |-> key[2], reviews |-> sorted]),
                     raised |-> "",
                     writes |-> Append(st.writes, key)],
                    Tail(keys), reviews)

\* save_reviews at time c: the store it leaves, the exception it raises
\* ("" for none) and the paths it wrote, in order.
save_reviews(fs, idx, reviews, c) ==
  LET start == [files |-> fs, affected_files |-> <<>>, raised |-> "", writes |-> <<>>]
  IN IF group_raises(reviews) # ""
     THEN [files |-> fs, index |-> idx, raised |-> group_raises(reviews),
           writes |-> <<>>]
     ELSE LET st == save_groups(start, grouped_keys(reviews), reviews)
          IN IF st.raised # ""
             THEN [files |-> st.files, index |-> idx, raised |-> st.raised,
                   writes |-> st.writes]
             ELSE [files |-> st.files,
                   index |-> update_index(idx, st.affected_files, c),
                   raised |-> "", writes |-> Append(st.writes, IndexPath)]

------------------------------------------------------------------------------
(* The runs.                                                               *)

\* Feed entries: <<source, country, version, date>>.
FeedShapes ==
  { <<"ios", "jp", "1.0", IsoStr(0, "T", 0, "-12:00")>>,
    <<"ios", "jp", "2.0", IsoStr(0, "T", 1, "-12:00")>>,
    <<"ios", "jp", None, IsoStr(0, "T", 0, "+00:00")>>,
    <<"ios", "us", "1.0", IsoStr(0, "T", 1, "+00:00")>>,
    <<"ios", "jp", "1.0", Garbage>>,
    <<"android", "jp", "2.0", DateTime(0, 1, "")>>,
    <<"android", "jp", None, DateTime(1, 0, "")>>,
    <<"android", "us", "1.0", NoneDate>> }

\* Records a caller hands to save_reviews with the date as a string:
\* <<source, country, version, date>>.
CallerShapes ==
  { <<"ios", "jp", "1.0", IsoStr(0, "T", 1, "")>>,
    <<"ios", "jp", "1.0", IsoStr(0, "T", 1, "-12:00")>>,
    <<"ios", "jp", "2.0", IsoStr(0, "T", 0, "")>>,
    <<"android", "jp", "", IsoStr(1, "T", 0, "")>>,
    <<"android", "us", "2.0", IsoStr(0, "T", 0, "-12:00")>>,
    <<"ios", "jp", "1.0", Garbage>> }

Shaped(shapes) ==
  {[source |-> s[1], id |-> i, date |-> s[4], version |-> s[3], country |-> s[2]] :
     s \in shapes, i \in Ids}

Batches(S) == UNION {[1..n -> S] : n \in 0..MaxBatch}

\* No text read: the path holds no document.
NoText == [rev |-> "none", n |-> 0]

\* No backend call made yet.
NoCall == [by |-> "", path |-> IndexPath, resp |-> "ok", text |-> NoText,
           raised |-> "", result |-> "", during |-> FALSE, calls |-> 0]

\* The backend as Spec sees it: no run under way step by step.
IoIdle == [local_run |-> TRUE, batch |-> <<>>, pc |-> "idle", at |-> 0,
           disk |-> EmptyMap, op |-> NoCall, seen |-> NoCall]

Init ==
  /\ io = IoIdle
  /\ files = EmptyMap
  /\ index = IndexAbsent
  /\ clock = 2
  /\ hist = <<>>
  /\ pre = [files |-> EmptyMap, index |-> IndexAbsent]

\* One call of save_reviews(reviews), on behalf of op.
Run(op, reviews, bad) ==
  LET res == save_reviews(files, index, reviews, clock)
  IN /\ files' = res.files
     /\ index' = res.index
     /\ clock' = clock + 1
     /\ hist' = Append(hist, [op |-> op, batch |-> reviews, bad |-> bad,
                              now |-> clock, raised |-> res.raised,
                              writes |-> res.writes])
     /\ pre' = [files |-> files, index |-> index]
     /\ UNCHANGED io

\* main(): fetch, then save_reviews unless nothing was fetched.
main ==
  /\ Len(hist) < MaxRuns
  /\ \E entries \in Batches(Shaped(FeedShapes)) :
       IF entries = <<>>
       THEN /\ clock' = clock + 1
            /\ hist' = Append(hist, [op |-> "main", batch |-> <<>>, bad |-> {},
                                     now |-> clock, raised |-> "", writes |-> <<>>])
            /\ pre' = [files |-> files, index |-> index]
            /\ UNCHANGED <<files, index, io>>
       ELSE Run("main", all_reviews(entries, clock),
                {i \in 1..Len(entries) : MissingOrUnparsable(entries[i].date)})

\* A direct call of StorageManager.save_reviews.
SaveReviews ==
  /\ Len(hist) < MaxRuns
  /\ \E reviews \in Batches(Shaped(CallerShapes)) :
       Run("save_reviews", reviews,
           {i \in 1..Len(reviews) : MissingOrUnparsable(reviews[i].date)})

Next == main \/ SaveReviews

Spec == Init /\ [][Next]_vars

------------------------------------------------------------------------------
(* The backend, call by call: one run of save_reviews and the consumer.     *)
(* A stored text is [rev, n]: the document the store held before the run   *)
(* ("old") or the one the run writes ("new"), and how many of the writes   *)
(* of its serialisation have reached the backend.                          *)

\* What the backend answers to a call: it serves it, or fails transiently.
Responses == {"ok", "Timeout"}

\* The records of the runs followed call by call.
IoShapes ==
  { <<"ios", "jp", "1.0", IsoStr(0, "T", 1, "")>>,
    <<"android", "us", "2.0", IsoStr(0, "T", 0, "-12:00")>> }

IoBatches == Batches(Shaped(IoShapes))

\* The writes json.dump makes of data: the opening bracket, each item, the
\* closing bracket.
dump_writes(path, data) ==
  IF path = IndexPath THEN Cardinality(DOMAIN data.versions) + 2
  ELSE Len(data) + 2

\* What the run under way leaves when it completes.
Target == save_reviews(files, index, io.batch, clock)

\* The paths the run reads and writes, in order, and the one it is at.
Plan == grouped_keys(io.batch) \o <<IndexPath>>

Cur == Plan[io.at]

\* The document a text is the serialisation of.
Doc(path, rev) ==
  IF path = IndexPath
  THEN IF rev = "old" THEN index ELSE Target.index
  ELSE IF rev = "old" THEN files[path] ELSE Target.files[path]

\* The text is a whole JSON document: json.load parses it.
Whole(path, text) ==
  text.rev # "none" /\ text.n = dump_writes(path, Doc(path, text.rev))

\* The text at path, if any.
Stored(disk, path) == IF path \in DOMAIN disk THEN disk[path] ELSE NoText

Put(disk, path, text) ==
  [p \in DOMAIN disk \cup {path} |-> IF p = path THEN text ELSE disk[p]]

\* StorageManager._read_json: one call, whose failure it lets through.
_read_json(disk, path, resp) ==
  LET text == Stored(disk, path)
      raised == IF resp # "ok" THEN resp
                ELSE IF text.rev # "none" /\ ~Whole(path, text)
                     THEN "JSONDecodeError" ELSE ""
  IN [by |-> "_read_json", path |-> path, resp |-> resp, text |-> text,
      raised |-> raised,
      result |-> IF raised # "" THEN "raised"
                 ELSE IF text.rev = "none" THEN "None" ELSE "data",
      during |-> FALSE, calls |-> 1]

\* StorageManager._write_json, as far as the call that opens the file or
\* uploads the blob: one call, whose failure it lets through.
_write_json(path, resp) ==
  [by |-> "_write_json", path |-> path, resp |-> resp, text |-> NoText,
   raised |-> IF resp # "ok" THEN resp ELSE "",
   result |-> IF resp # "ok" THEN "raised" ELSE "written",
   during |-> FALSE, calls |-> 1]

\* load_json of the consumer.  With a client and a bucket, any exception of
\* the GCS branch is caught and the local fallback is tried, where a GCS
\* deployment has no file: None.  Without, the local file is read.
load_json(local_run, disk, path, resp) ==
  LET text == Stored(disk, path)
      torn == text.rev # "none" /\ ~Whole(path, text)
      raised == IF local_run
                THEN IF resp # "ok" THEN resp
                     ELSE IF torn THEN "JSONDecodeError" ELSE ""
                ELSE ""
      found == text.rev # "none" /\ (local_run \/ (resp = "ok" /\ ~torn))
  IN [by |-> "load_json", path |-> path, resp |-> resp, text |-> text,
      raised |-> raised,
      result |-> IF raised # "" THEN "raised"
                 ELSE IF found THEN "data" ELSE "None",
      during |-> FALSE, calls |-> 1]

\* load_index: no data is the default index {"versions": {}}.
load_index(local_run, disk, resp) ==
  LET r == load_json(local_run, disk, IndexPath, resp)
  IN [r EXCEPT !.by = "load_index",
               !.result = IF @ = "None" THEN "default" ELSE @]

\* load_reviews_data, for one file: no data adds nothing to the list.
load_reviews_data(local_run, disk, path, resp) ==
  LET r == load_json(local_run, disk, path, resp)
  IN [r EXCEPT !.by = "load_reviews_data",
               !.result = IF @ = "None" THEN "empty" ELSE @]

\* The store after one earlier run, and a run about to read its first path.
IoInit ==
  \E first \in {b \in IoBatches : Len(b) <= 1}, batch \in IoBatches,
     local \in BOOLEAN :
    LET s == save_reviews(EmptyMap, IndexAbsent, first, 2)
    IN /\ files = s.files
       /\ index = s.index
       /\ clock = 3
       /\ hist = <<>>
       /\ pre = [files |-> EmptyMap, index |-> IndexAbsent]
       /\ io = [local_run |-> local, batch |-> batch, pc |-> "read", at |-> 1,
                disk |-> [p \in DOMAIN s.files \cup {IndexPath} |->
                            [rev |-> "old",
                             n |-> dump_writes(p, IF p = IndexPath THEN s.index
                                                  ELSE s.files[p])]],
                op |-> NoCall, seen |-> NoCall]

Keep == UNCHANGED <<files, index, clock, hist, pre>>

\* The run reads the document at its path: storage.py:72 and :102.
ReadJson ==
  /\ io.pc = "read"
  /\ \E resp \in Responses :
       LET r == _read_json(io.disk, Cur, resp)
       IN io' = [io EXCEPT !.op = r,
                           !.pc = IF r.raised = "" THEN "write" ELSE "raised"]
  /\ Keep

\* _write_json, local: open(local_path, 'w') leaves the file empty.
OpenFile ==
  /\ io.pc = "write"
  /\ io.local_run
  /\ \E resp \in Responses :
       io' = IF resp = "ok"
             THEN [io EXCEPT !.op = _write_json(Cur, resp), !.pc = "dump",
                             !.disk = Put(io.disk, Cur, [rev |-> "new", n |-> 0])]
             ELSE [io EXCEPT !.op = _write_json(Cur, resp), !.pc = "raised"]
  /\ Keep

\* The run goes on after the write of its path: to the next path, or ends.
After(st) ==
  IF st.at = Len(Plan) THEN [st EXCEPT !.pc = "done"]
  ELSE [st EXCEPT !.pc = "read", !.at = @ + 1]

\* _write_json, local: one more write of json.dump reaches the file; after
\* the last one the file is closed.
JsonDump ==
  /\ io.pc = "dump"
  /\ LET st == [io EXCEPT !.disk[Cur].n = @ + 1]
     IN io' = IF Whole(Cur, st.disk[Cur]) THEN After(st) ELSE st
  /\ Keep

\* _write_json, GCS: blob.upload_from_string is called.
UploadStart ==
  /\ io.pc = "write"
  /\ ~io.local_run
  /\ io' = [io EXCEPT !.pc = "upload"]
  /\ Keep

\* _write_json, GCS: the upload replaces the object at once, or fails.
UploadDone ==
  /\ io.pc = "upload"
  /\ \E resp \in Responses :
       io' = IF resp = "ok"
             THEN After([io EXCEPT
                    !.op = _write_json(Cur, resp),
                    !.disk = Put(io.disk, Cur,
                                 [rev |-> "new",
                                  n |-> dump_writes(Cur, Doc(Cur, "new"))])])
             ELSE [io EXCEPT !.op = _write_json(Cur, resp), !.pc = "raised"]
  /\ Keep

\* The run is inside _write_json of path.
Writing(path) == io.pc \in {"dump", "upload"} /\ Cur = path

\* The consumer loads the index, at any moment.
LoadIndex ==
  /\ \E resp \in Responses :
       io' = [io EXCEPT !.seen =
                [load_index(io.local_run, io.disk, resp)
                   EXCEPT !.during = Writing(IndexPath)]]
  /\ Keep

\* The consumer loads a partition, at any moment.
LoadReviewsData ==
  /\ \E path \in DOMAIN files \cup Range(grouped_keys(io.batch)),
        resp \in Responses :
       io' = [io EXCEPT !.seen =
                [load_reviews_data(io.local_run, io.disk, path, resp)
                   EXCEPT !.during = Writing(path)]]
  /\ Keep

IoNext ==
  \/ ReadJson \/ OpenFile \/ JsonDump \/ UploadStart \/ UploadDone
  \/ LoadIndex \/ LoadReviewsData

IoSpec == IoInit /\ [][IoNext]_vars

------------------------------------------------------------------------------
(* Properties.                                                             *)

Ran == Len(hist) >= 1

\* The last run: its batch, its exception, the paths it wrote.
last == hist[Len(hist)]

\* index.json lists ym under versions[v][country].
Listed(idx, v, country, ym) ==
  /\ idx.present
  /\ v \in DOMAIN idx.versions
  /\ country \in DOMAIN idx.versions[v]
  /\ ym \in Range(idx.versions[v][country])

\* The run called save_reviews: main() does not when nothing was fetched.
Saved(run) == ~(run.op = "main" /\ run.batch = <<>>)

\* The partitions the last run wrote.
Written == Range(last.writes) \ {IndexPath}

\* The records of the last batch under key, those with a usable date.
Delivered(key) ==
  SelectSeq(last.batch,
            LAMBDA r : ~MissingOrUnparsable(r.date) /\ group_key(r) = key)

\* C1: idempotence of ingestion. When the first two runs on an empty store
\* are save_reviews with the same batch, the second leaves every partition
\* document and the index's version -> country -> year-month map as the
\* first left them.
C1_Idempotent ==
  (Len(hist) = 2 /\ Saved(hist[1]) /\ Saved(hist[2])
                 /\ hist[1].batch = hist[2].batch)
    => /\ files = pre.files
       /\ index.present = pre.index.present
       /\ index.versions = pre.index.versions

\* The same two-record batch of fetched records, sorted and serialised by
\* the first run and read back by the second.
C1_Witness ==
  /\ Len(hist) = 2
  /\ hist[1].batch = hist[2].batch
  /\ hist[2].raised = ""
  /\ \E k \in DOMAIN files :
       /\ Len(files[k]) = 2
       /\ files[k][1].date # files[k][2].date
       /\ \A i \in 1..2 : hist[2].batch[i].date.kind = "datetime"
       /\ group_key(hist[2].batch[1]) = k
       /\ group_key(hist[2].batch[2]) = k

\* C2: first seen wins. When the last run delivers a record whose id the
\* partition of its key already holds, the partition still holds the stored
\* record of that id, unchanged, and no second one; and unless the
\* partition's content has the delivered version, the run adds no index
\* entry for that version under the partition.
C2_FirstSeenWins ==
  Ran =>
    \A k \in DOMAIN pre.files :
      \A i \in 1..Len(Delivered(k)) :
        LET nr == Delivered(k)[i]
            v == IF nr.version \in {None, ""} THEN "Unknown" ELSE nr.version
        IN nr.id \in IdsOf(pre.files[k]) =>
             /\ k \in DOMAIN files
             /\ \A j \in 1..Len(pre.files[k]) :
                  pre.files[k][j].id = nr.id => pre.files[k][j] \in Range(files[k])
             /\ Cardinality({j \in 1..Len(files[k]) : files[k][j].id = nr.id}) = 1
             /\ (v \notin versions_in_file(files[k]) /\ Listed(index, v, k[1], k[2]))
                  => Listed(pre.index, v, k[1], k[2])

\* A run that completed after delivering a stored id under another version,
\* which the index does not list.
C2_Witness ==
  /\ Ran
  /\ last.raised = ""
  /\ \E k \in DOMAIN pre.files :
       \E i \in 1..Len(Delivered(k)) :
         \E j \in 1..Len(pre.files[k]) :
           /\ pre.files[k][j].id = Delivered(k)[i].id
           /\ pre.files[k][j].version = "1.0"
           /\ Delivered(k)[i].version = "2.0"
           /\ k \in Written
           /\ ~Listed(index, "2.0", k[1], k[2])

\* The UTC instant a stored date denotes.
StoredInstant(r) == Instant(fromisoformat(r.date))

\* C3: the sort invariant. Every persisted partition lists its records in
\* non-increasing order of date.
C3_SortedByDate ==
  \A k \in DOMAIN files :
    \A i, j \in 1..Len(files[k]) :
      i < j => StoredInstant(files[k][i]) >= StoredInstant(files[k][j])

\* C4 as stated: every (version, country, ym) of the index names a partition
\* that exists and holds a record whose version field is that version and
\* whose country is that country.
C4_SoundOnVersionField ==
  index.present =>
    \A v \in DOMAIN index.versions :
      \A c \in DOMAIN index.versions[v] :
        \A ym \in Range(index.versions[v][c]) :
          /\ <<c, ym>> \in DOMAIN files
          /\ \E i \in 1..Len(files[<<c, ym>>]) :
               /\ files[<<c, ym>>][i].version = v
               /\ files[<<c, ym>>][i].country = c

\* C4, amended: index soundness, a record whose version is missing, None or
\* empty counting as version "Unknown". Every (version, country, ym) of the
\* index names a partition that exists and holds a record of that country
\* whose version, so counted, is that version.
C4_IndexSound ==
  index.present =>
    \A v \in DOMAIN index.versions :
      \A c \in DOMAIN index.versions[v] :
        \A ym \in Range(index.versions[v][c]) :
          /\ <<c, ym>> \in DOMAIN files
          /\ \E i \in 1..Len(files[<<c, ym>>]) :
               /\ versions_in_file(<<files[<<c, ym>>][i]>>) = {v}
               /\ files[<<c, ym>>][i].country = c

\* An index of two versions over two partitions, one of them listed under
\* "Unknown" for a record stored without a version.
C4_Witness ==
  /\ Listed(index, "Unknown", "jp", 202405)
  /\ Listed(index, "1.0", "us", 202405)
  /\ ~Listed(index, "1.0", "jp", 202405)
  /\ \E i \in 1..Len(files[<<"jp", 202405>>]) :
       files[<<"jp", 202405>>][i].version = None

\* C5: index completeness per run. After a run, for every partition the run
\* wrote and every version in the partition's content (a missing or empty
\* one counted as "Unknown"), the index lists the partition's year-month
\* under that version and the partition's country.
C5_IndexComplete ==
  Ran =>
    \A k \in Written :
      \A v \in versions_in_file(files[k]) : Listed(index, v, k[1], k[2])

\* C6: unique ids per partition. No persisted partition holds two records
\* with the same id.
C6_UniqueIds ==
  \A k \in DOMAIN files :
    \A i, j \in 1..Len(files[k]) :
      files[k][i].id = files[k][j].id => i = j

\* A batch that brought one id twice under one key, written by the run.
C6_Witness ==
  /\ Ran
  /\ last.raised = ""
  /\ Len(last.batch) = 2
  /\ last.batch[1].id = last.batch[2].id
  /\ last.batch[1] # last.batch[2]
  /\ group_key(last.batch[1]) = group_key(last.batch[2])
  /\ group_key(last.batch[1]) \in Written

\* C7: partition assignment. Every record persisted in the partition
\* (country, ym) has that country and a date whose year-month at UTC is ym.
C7_PartitionOfUtcMonth ==
  \A k \in DOMAIN files :
    \A i \in 1..Len(files[k]) :
      /\ files[k][i].country = k[1]
      /\ UtcYearMonth(files[k][i].date) = k[2]

\* C8: no data loss. A run leaves every partition that existed before it in
\* place, with every id it held and no fewer records.
C8_NoDataLoss ==
  \A k \in DOMAIN pre.files :
    /\ k \in DOMAIN files
    /\ IdsOf(pre.files[k]) \subseteq IdsOf(files[k])
    /\ Len(files[k]) >= Len(pre.files[k])

\* A run that rewrote a partition that held a record, adding another.
C8_Witness ==
  /\ Ran
  /\ \E k \in DOMAIN pre.files :
       /\ k \in Written
       /\ Len(pre.files[k]) >= 1
       /\ Len(files[k]) > Len(pre.files[k])

\* The merge of group key raises on the store fs.
GroupFails(fs, key) ==
  sort_raises(merge(read_json(fs, key), new_reviews(last.batch, key)))

\* C9: failure isolation. When the merge of one group of a run fails and
\* the run has a group whose own merge does not fail, every such group is
\* still written, and index.json is still written, listing the partitions
\* that were.
C9_FailureIsolated ==
  (/\ Ran
   /\ last.raised = "TypeError"
   /\ \E i \in 1..Len(grouped_keys(last.batch)) :
        ~GroupFails(pre.files, grouped_keys(last.batch)[i])) =>
    /\ \A i \in 1..Len(grouped_keys(last.batch)) :
         LET key == grouped_keys(last.batch)[i]
         IN ~GroupFails(pre.files, key) => key \in Written
    /\ IndexPath \in Range(last.writes)
    /\ \A k \in Written :
         \A v \in versions_in_file(files[k]) : Listed(index, v, k[1], k[2])

\* The records of the last batch whose date was neither missing nor
\* unparsable.
RECURSIVE ValidUpTo(_)
ValidUpTo(n) ==
  IF n = 0 THEN <<>>
  ELSE IF n \in last.bad THEN ValidUpTo(n - 1)
  ELSE Append(ValidUpTo(n - 1), last.batch[n])

ValidOnly == ValidUpTo(Len(last.batch))

\* C10: validation drop. A run whose batch has records with a missing or
\* unparsable date leaves the partitions as ingesting the other records
\* alone would: no such record is stored, and the valid ones are.
C10_ValidationDrop ==
  (Ran /\ last.bad # {}) =>
    files = save_reviews(pre.files, pre.index, ValidOnly, last.now).files

\* The positions of a run's writes that wrote index.json.
IndexWrites(run) == {i \in 1..Len(run.writes) : run.writes[i] = IndexPath}

\* C13: index update ordering. Every run that called save_reviews wrote
\* index.json exactly once, and as the last of its writes, after every
\* partition write of the run.
C13_IndexWrittenOnceLast ==
  \A n \in 1..Len(hist) :
    Saved(hist[n]) =>
      /\ Cardinality(IndexWrites(hist[n])) = 1
      /\ IndexWrites(hist[n]) = {Len(hist[n].writes)}

\* C14: the index is forward-only. Every (version, country, ym) the index
\* listed before a run is listed after it, the index document still exists,
\* and no version and no country of a version has left it.
C14_IndexForwardOnly ==
  /\ pre.index.present => index.present
  /\ \A v \in DOMAIN pre.index.versions :
       /\ v \in DOMAIN index.versions
       /\ \A c \in DOMAIN pre.index.versions[v] :
            /\ c \in DOMAIN index.versions[v]
            /\ \A ym \in Range(pre.index.versions[v][c]) :
                 Listed(index, v, c, ym)

\* A run that rewrote the index, adding an entry for a partition it wrote,
\* while the index held an entry of a partition the run did not touch.
C14_Witness ==
  /\ Ran
  /\ IndexPath \in Range(last.writes)
  /\ \E v \in DOMAIN pre.index.versions :
       \E c \in DOMAIN pre.index.versions[v] :
         \E ym \in Range(pre.index.versions[v][c]) :
           /\ <<c, ym>> \notin Written
           /\ Listed(index, v, c, ym)
  /\ \E v \in DOMAIN index.versions :
       \E c \in DOMAIN index.versions[v] :
         \E ym \in Range(index.versions[v][c]) :
           /\ <<c, ym>> \in Written
           /\ ~Listed(pre.index, v, c, ym)

\* C15: index lists are sorted sets. Every versions[version][country] list
\* of the index is in strictly ascending order: sorted, and no year-month
\* twice.
C15_IndexListsSortedSets ==
  \A v \in DOMAIN index.versions :
    \A c \in DOMAIN index.versions[v] :
      \A i, j \in 1..Len(index.versions[v][c]) :
        i < j => index.versions[v][c][i] < index.versions[v][c][j]

\* A list that held the later year-month alone and, after a run that
\* delivered records of both months, holds the earlier one before it.
C15_Witness ==
  /\ Ran
  /\ \E v \in DOMAIN pre.index.versions :
       \E c \in DOMAIN pre.index.versions[v] :
         /\ pre.index.versions[v][c] = <<202406>>
         /\ index.versions[v][c] = <<202405, 202406>>
         /\ <<c, 202405>> \in Written
         /\ <<c, 202406>> \in Written

\* Every record of the last batch has a usable date.
AllDated == \A i \in 1..Len(last.batch) : ~MissingOrUnparsable(last.batch[i].date)

\* C17: merge is a union on ids. A run that delivers records, all with a
\* usable date, completes, and each partition it delivered records for then
\* holds exactly the ids stored before the run and the ids delivered.
C17_MergeIsUnion ==
  (Ran /\ Saved(last) /\ AllDated) =>
    /\ last.raised = ""
    /\ \A i \in 1..Len(last.batch) :
         LET k == group_key(last.batch[i])
         IN /\ k \in DOMAIN files
            /\ IdsOf(files[k]) =
                 IdsOf(read_json(pre.files, k)) \cup IdsOf(Delivered(k))

\* The place of id in the partition k as it stood before the sort: the
\* stored records in stored order, then the delivered ones in input order.
PreSortRank(k, id) ==
  LET stored == read_json(pre.files, k)
  IN IF id \in IdsOf(stored)
     THEN CHOOSE j \in 1..Len(stored) : stored[j].id = id
     ELSE Len(stored) +
          CHOOSE j \in 1..Len(Delivered(k)) :
            /\ Delivered(k)[j].id = id
            /\ \A h \in 1..(j - 1) : Delivered(k)[h].id # id

IndexedAs(r) == IF r.version \in {None, ""} THEN "Unknown" ELSE r.version

\* C19: Unknown-version mapping. When a run has called update_index, for
\* every partition the run wrote the index lists the partition's year-month
\* under the version of each record of its final content, a record whose
\* version is missing, None or empty counting as "Unknown"; and the run
\* lists the partition under no version its final content does not have.
C19_UnknownVersionMapping ==
  (Ran /\ IndexPath \in Range(last.writes)) =>
    \A k \in Written :
      /\ \A i \in 1..Len(files[k]) :
           Listed(index, IndexedAs(files[k][i]), k[1], k[2])
      /\ \A v \in DOMAIN index.versions :
           (Listed(index, v, k[1], k[2]) /\ ~Listed(pre.index, v, k[1], k[2]))
             => \E i \in 1..Len(files[k]) : IndexedAs(files[k][i]) = v

\* A run that wrote a partition holding a record with no version and one
\* with a version, and listed it under "Unknown" and under that version.
C19_Witness ==
  /\ Ran
  /\ IndexPath \in Range(last.writes)
  /\ \E k \in Written :
       /\ \E i \in 1..Len(files[k]) : files[k][i].version \in {None, ""}
       /\ \E i \in 1..Len(files[k]) : files[k][i].version = "1.0"
       /\ \A i \in 1..Len(files[k]) : files[k][i].version # "Unknown"
       /\ Listed(index, "Unknown", k[1], k[2])
       /\ ~Listed(pre.index, "Unknown", k[1], k[2])
       /\ Listed(index, "1.0", k[1], k[2])

\* The keys save_reviews derives from the records of the last batch.
BatchKeys ==
  {group_key(last.batch[i]) :
     i \in {j \in 1..Len(last.batch) : ~MissingOrUnparsable(last.batch[j].date)}}

\* C20: frame of a run. The partitions a run writes are among the keys
\* save_reviews derives from the records of its batch, and every other
\* partition is after the run the document it was before: none is created,
\* removed or changed.
C20_Frame ==
  Ran =>
    /\ Written \subseteq BatchKeys
    /\ \A k \in (DOMAIN files \cup DOMAIN pre.files) \ BatchKeys :
         /\ k \in DOMAIN pre.files
         /\ k \in DOMAIN files
         /\ files[k] = pre.files[k]

\* A run that wrote one partition and the index while the store held
\* another partition, which the batch had no record for.
C20_Witness ==
  /\ Ran
  /\ last.raised = ""
  /\ Written # {}
  /\ \E k \in DOMAIN pre.files :
       /\ k \notin BatchKeys
       /\ pre.files[k] # <<>>
       /\ k \in DOMAIN files

\* C11: atomic write visibility. A consumer read that the backend serves
\* while the run is inside _write_json of the same path observes a whole
\* document, the previous one or the new one, or no document where the
\* path held none before the run.
C11_AtomicWriteVisibility ==
  (io.seen.by # "" /\ io.seen.during /\ io.seen.resp = "ok") =>
    \/ Whole(io.seen.path, io.seen.text)
    \/ io.seen.text.rev = "none" /\ io.seen.path \notin DOMAIN files

\* The call read a document that is not whole.
Torn(call) == call.text.rev # "none" /\ ~Whole(call.path, call.text)

\* C12: read outcomes are not conflated. A read of the store or of the
\* consumer ends as not found (None, the default index, nothing added to
\* the list) only when the backend served the call and the path holds no
\* document; a read the backend failed, or one of a document that is not
\* whole, ends in an exception.
C12_ReadOutcomesDistinct ==
  \A call \in {io.op, io.seen} :
    call.by \in {"_read_json", "load_index", "load_reviews_data"} =>
      /\ call.result \in {"None", "default", "empty"} =>
           (call.resp = "ok" /\ call.text.rev = "none")
      /\ (call.resp # "ok" \/ Torn(call)) => call.result = "raised"

\* C16: transient failures are retried boundedly. A call of the store that
\* the backend failed transiently is made again, and an operation that
\* ends in failure ends with StorageError.
C16_TransientRetried ==
  (io.op.by \in {"_read_json", "_write_json"} /\ io.op.resp # "ok") =>
    /\ io.op.calls >= 2
    /\ io.op.raised \in {"", "StorageError"}

\* C21: store-wide id uniqueness. No review id is stored in two partitions
\* of the store.
C21_StoreWideUniqueIds ==
  \A k1, k2 \in DOMAIN files :
    k1 # k2 => IdsOf(files[k1]) \cap IdsOf(files[k2]) = {}

====
